---- MODULE Spec2Model ----
(***************************************************************************)
(* A model of pedroac/js-inputid: the sanitizer `clean`, the uniqueness    *)
(* search `generateUniqueFromBaseId`, the option resolution of             *)
(* InputIdOptions and the InputId value object, over a small DOM.          *)
(*                                                                         *)
(* Strings are sequences of characters; a character is a one-character     *)
(* string, or the name of its code point ("U+00E9") when it is not ASCII.  *)
(***************************************************************************)
EXTENDS Integers, Sequences, FiniteSets

\* Longest candidate string handed to clean in the sanitizer specification.
MaxLen == 3

(***************************************************************************)
(* JavaScript values: a property that is absent (undefined), null, or a    *)
(* string; and an optional boolean.                                        *)
(***************************************************************************)
JsAbsent == [k |-> "absent", s |-> <<>>]
JsNull == [k |-> "null", s |-> <<>>]
JsStr(s) == [k |-> "str", s |-> s]

\* ToBoolean of a string-valued property: undefined, null and '' are falsy.
Truthy(v) == v.k = "str" /\ v.s # <<>>

BoolAbsent == [k |-> "absent", b |-> FALSE]
JsBool(b) == [k |-> "bool", b |-> b]

(***************************************************************************)
(* Characters                                                              *)
(***************************************************************************)
Digits == {"0", "1", "2", "3", "4", "5", "6", "7", "8", "9"}

AsciiLower ==
    {"a", "b", "c", "d", "e", "f", "g", "h", "i", "j", "k", "l", "m",
     "n", "o", "p", "q", "r", "s", "t", "u", "v", "w", "x", "y", "z"}

AsciiUpper ==
    {"A", "B", "C", "D", "E", "F", "G", "H", "I", "J", "K", "L", "M",
     "N", "O", "P", "Q", "R", "S", "T", "U", "V", "W", "X", "Y", "Z"}

AsciiLetters == AsciiLower \cup AsciiUpper

\* Combining diacritical marks, the block U+0300-U+036F (the acute accent).
CombiningMarks == {"U+0301"}

\* Letters outside ASCII (\p{L}): e-acute, the CJK ideograph U+4E9C.
UnicodeLetters == {"U+00E9", "U+4E9C"}

\* String.prototype.normalize('NFKD') on one character.
NFKDChar(c) ==
    IF c = "U+00E9" THEN <<"e", "U+0301">> ELSE <<c>>

\* String.prototype.toLowerCase on one character.
LowerChar(c) ==
    CASE c = "A" -> "a" [] c = "B" -> "b" [] c = "C" -> "c" [] c = "D" -> "d"
      [] c = "E" -> "e" [] c = "F" -> "f" [] c = "G" -> "g" [] c = "H" -> "h"
      [] c = "I" -> "i" [] c = "J" -> "j" [] c = "K" -> "k" [] c = "L" -> "l"
      [] c = "M" -> "m" [] c = "N" -> "n" [] c = "O" -> "o" [] c = "P" -> "p"
      [] c = "Q" -> "q" [] c = "R" -> "r" [] c = "S" -> "s" [] c = "T" -> "t"
      [] c = "U" -> "u" [] c = "V" -> "v" [] c = "W" -> "w" [] c = "X" -> "x"
      [] c = "Y" -> "y" [] c = "Z" -> "z"
      [] OTHER -> c

(***************************************************************************)
(* String helpers                                                          *)
(***************************************************************************)
\* Length of the run of hyphens of s that starts at position i.
RECURSIVE HyphenRun(_, _)
HyphenRun(s, i) ==
    IF i <= Len(s) /\ s[i] = "-" THEN 1 + HyphenRun(s, i + 1) ELSE 0

\* Array.prototype.join.
RECURSIVE Join(_, _)
Join(parts, sep) ==
    IF parts = <<>> THEN <<>>
    ELSE IF Len(parts) = 1 THEN parts[1]
    ELSE parts[1] \o sep \o Join(Tail(parts), sep)

\* Number to its decimal string, as a template literal prints it.
RECURSIVE NumberToString(_)
NumberToString(n) ==
    LET d == <<"0", "1", "2", "3", "4", "5", "6", "7", "8", "9">>[(n % 10) + 1]
    IN  IF n < 10 THEN <<d>> ELSE NumberToString(n \div 10) \o <<d>>

(***************************************************************************)
(* clean                                                                   *)
(***************************************************************************)
\* isHtml5 of clean: the doctype is the HTML5 one.
isHtml5(doctype) ==
    /\ doctype.name = "html"
    /\ doctype.publicId = ""
    /\ doctype.systemId = ""

\* Whether invalidCharactersRegex matches the character c.
InvalidCharacter(c, html5) ==
    IF html5
    THEN c \notin (Digits \cup AsciiLetters \cup UnicodeLetters
                   \cup CombiningMarks \cup {"_", "-"})
    ELSE c \notin (Digits \cup AsciiLetters \cup {"_", "-"})

\* .normalize('NFKD')
RECURSIVE Normalize(_)
Normalize(s) ==
    IF s = <<>> THEN <<>> ELSE NFKDChar(Head(s)) \o Normalize(Tail(s))

\* .replace(/[\u0300-\u036f]/g, '')
StripMarks(s) == SelectSeq(s, LAMBDA c : c \notin CombiningMarks)

\* The replacement of line 26 left out: invalid characters stay.
ReplaceInvalidKeeps(s, html5) == s

\* .replace(invalidCharactersRegex, () => '-')
ReplaceInvalid(s, html5) ==
    [i \in 1..Len(s) |-> IF InvalidCharacter(s[i], html5) THEN "-" ELSE s[i]]

\* .replace(/-(-+)/g, '-'): scanning from position i.
RECURSIVE CollapseFrom(_, _)
CollapseFrom(s, i) ==
    IF i > Len(s) THEN <<>>
    ELSE IF HyphenRun(s, i) >= 2
         THEN <<"-">> \o CollapseFrom(s, i + HyphenRun(s, i))
         ELSE <<s[i]>> \o CollapseFrom(s, i + 1)

CollapseHyphens(s) == CollapseFrom(s, 1)

\* .replace(/^-+|-+$|^_|_$/g, ''): scanning from position i; the
\* alternatives are tried in order at each position, ^ matches at the start
\* of the string only and $ at its end only.
RECURSIVE StripFrom(_, _)
StripFrom(s, i) ==
    IF i > Len(s) THEN <<>>
    ELSE IF i = 1 /\ s[i] = "-"
         THEN StripFrom(s, i + HyphenRun(s, i))
    ELSE IF s[i] = "-" /\ i + HyphenRun(s, i) = Len(s) + 1
         THEN <<>>
    ELSE IF i = 1 /\ s[i] = "_"
         THEN StripFrom(s, i + 1)
    ELSE IF i = Len(s) /\ s[i] = "_"
         THEN <<>>
    ELSE <<s[i]>> \o StripFrom(s, i + 1)

\* The strip step of line 28 left out.
StripEndsLeftOut(s) == s

StripEnds(s) == StripFrom(s, 1)

\* .toLowerCase()
ToLowerCase(s) == [i \in 1..Len(s) |-> LowerChar(s[i])]

\* The string before the strip step of clean.
beforeStrip(uncleanedId, doctype) ==
    CollapseHyphens(
        ReplaceInvalid(StripMarks(Normalize(uncleanedId)), isHtml5(doctype)))

\* The local cleanedHtmlId of clean.
cleanedHtmlId(uncleanedId, doctype) ==
    ToLowerCase(StripEnds(beforeStrip(uncleanedId, doctype)))

\* clean without the test of lines 30-32 for an empty cleaned id.
cleanWithoutEmptyTest(uncleanedId, doctype, fallback, separator) ==
    LET c == cleanedHtmlId(uncleanedId, doctype)
    IN  IF ~isHtml5(doctype) /\ Len(c) > 0 /\ c[1] \notin AsciiLetters
        THEN fallback \o separator \o c
        ELSE c

\* clean without the !isHtml5 of line 33: the fallback is put in front in
\* both modes.
cleanPrefixesInBothModes(uncleanedId, doctype, fallback, separator) ==
    LET c == cleanedHtmlId(uncleanedId, doctype)
    IN  IF Len(c) = 0 THEN fallback
        ELSE IF c[1] \notin AsciiLetters
             THEN fallback \o separator \o c
             ELSE c

clean(uncleanedId, doctype, fallback, separator) ==
    LET c == cleanedHtmlId(uncleanedId, doctype)
    IN  IF Len(c) = 0 THEN fallback
        ELSE IF ~isHtml5(doctype) /\ c[1] \notin AsciiLetters
             THEN fallback \o separator \o c
             ELSE c

(***************************************************************************)
(* Inputs                                                                  *)
(***************************************************************************)
Html5Doctype == [name |-> "html", publicId |-> "", systemId |-> ""]

Html4Doctype ==
    [name |-> "html",
     publicId |-> "-//W3C//DTD HTML 4.01 Transitional//EN",
     systemId |-> "http://www.w3.org/TR/html4/loose.dtd"]

Doctypes == {Html5Doctype, Html4Doctype}

\* The separators the options accept.
Separators == {<<"_">>, <<"-">>, <<>>}

\* Fallbacks that pass the validation of the options.
Fallbacks == {<<"f">>, <<"x", "-", "1">>}

\* The characters candidate strings are drawn from.
CandidateChars == {"a", "B", "1", "_", "-", "[", "U+00E9", "U+4E9C"}

RECURSIVE StringsUpTo(_, _)
StringsUpTo(chars, n) ==
    IF n = 0 THEN {<<>>}
    ELSE LET shorter == StringsUpTo(chars, n - 1)
         IN  shorter \cup {Append(s, c) : s \in shorter, c \in chars}

Candidates == StringsUpTo(CandidateChars, MaxLen)

(***************************************************************************)
(* DOM nodes as the options see them                                       *)
(***************************************************************************)
\* A node: ref is its identity (0: no node), html whether it is an
\* HTMLElement, the rest the properties the options read from it.
NoNode ==
    [ref |-> 0, html |-> FALSE, type |-> JsAbsent, tagName |-> JsAbsent,
     name |-> JsAbsent, value |-> JsAbsent, datasetName |-> JsAbsent,
     formId |-> JsAbsent, parentTag |-> JsAbsent, parentName |-> JsAbsent]

TypeText == <<"t", "e", "x", "t">>
TypeRadio == <<"r", "a", "d", "i", "o">>
TypeCheckbox == <<"c", "h", "e", "c", "k", "b", "o", "x">>
TypeOption == <<"o", "p", "t", "i", "o", "n">>
TagInput == <<"I", "N", "P", "U", "T">>
TagOption == <<"O", "P", "T", "I", "O", "N">>
TagSelect == <<"S", "E", "L", "E", "C", "T">>
TagOptgroup == <<"O", "P", "T", "G", "R", "O", "U", "P">>

\* The constructor argument when nothing is passed: options = {}.
EmptyOptions ==
    [kind |-> "object", instanceofObject |-> TRUE, node |-> NoNode,
     element |-> NoNode, name |-> JsAbsent, value |-> JsAbsent,
     type |-> JsAbsent, prefix |-> JsAbsent, separator |-> JsAbsent,
     fallback |-> JsAbsent, forceUniqueness |-> BoolAbsent,
     ownerDocument |-> "absent", formId |-> JsAbsent]

\* The constructor argument when a node is passed, as in new InputId(element).
\* isObject is `node instanceof Object`, which depends on the realm the node
\* comes from.
NodeOptions(node, isObject) ==
    [EmptyOptions EXCEPT !.kind = "node", !.instanceofObject = isObject,
                         !.node = node]

(***************************************************************************)
(* Property reads on this.options                                          *)
(***************************************************************************)
optName(o) == IF o.kind = "object" THEN o.name ELSE o.node.name
optType(o) == IF o.kind = "object" THEN o.type ELSE o.node.type
optValue(o) == IF o.kind = "object" THEN o.value ELSE o.node.value
optPrefix(o) == IF o.kind = "object" THEN o.prefix ELSE JsAbsent
optFormId(o) == IF o.kind = "object" THEN o.formId ELSE o.node.formId
optSeparator(o) == IF o.kind = "object" THEN o.separator ELSE JsAbsent
optFallback(o) == IF o.kind = "object" THEN o.fallback ELSE JsAbsent
optForceUniqueness(o) ==
    IF o.kind = "object" THEN o.forceUniqueness ELSE BoolAbsent
optElement(o) == IF o.kind = "object" THEN o.element ELSE NoNode
optOwnerDocument(o) ==
    IF o.kind = "object" THEN o.ownerDocument ELSE "document"
optParentTag(o) == IF o.kind = "object" THEN JsAbsent ELSE o.node.parentTag
optParentName(o) == IF o.kind = "object" THEN JsAbsent ELSE o.node.parentName

(***************************************************************************)
(* getOptionSelectElement                                                  *)
(***************************************************************************)
\* The loop re-reads optionElement.parentNode on every round, so it returns
\* null without a parent, the parent when it is a select, and never returns
\* otherwise. Result: found (a select was returned), diverges, and its name.
getOptionSelectElement(optionElement) ==
    IF optParentTag(optionElement).k # "str"
    THEN [found |-> FALSE, diverges |-> FALSE, name |-> JsNull]
    ELSE IF ToLowerCase(optParentTag(optionElement).s) = ToLowerCase(TagSelect)
         THEN [found |-> TRUE, diverges |-> FALSE,
               name |-> optParentName(optionElement)]
         ELSE [found |-> FALSE, diverges |-> TRUE, name |-> JsNull]

(***************************************************************************)
(* InputIdOptions: the getters                                             *)
(***************************************************************************)
\* The local hmtlElement of the element getter.
hmtlElement(o) ==
    IF o.instanceofObject THEN optElement(o) ELSE o.node

elementThrows(o) == hmtlElement(o).ref # 0 /\ ~hmtlElement(o).html

\* get element(): the node, or NoNode for null.
OptionsElement(o) == hmtlElement(o)

\* get type()
OptionsType(o) ==
    IF Truthy(optType(o)) THEN optType(o)
    ELSE IF OptionsElement(o).ref # 0 /\ Truthy(OptionsElement(o).type)
         THEN OptionsElement(o).type
    ELSE IF OptionsElement(o).ref # 0 /\ Truthy(OptionsElement(o).tagName)
         THEN JsStr(ToLowerCase(OptionsElement(o).tagName.s))
    ELSE JsNull

\* get name() never returns when the select lookup never returns.
nameDiverges(o) ==
    /\ ~Truthy(optName(o))
    /\ ~(OptionsElement(o).ref # 0 /\ Truthy(OptionsElement(o).datasetName))
    /\ OptionsType(o) = JsStr(TypeOption)
    /\ getOptionSelectElement(o).diverges

\* get name()
OptionsName(o) ==
    IF Truthy(optName(o)) THEN optName(o)
    ELSE IF OptionsElement(o).ref # 0 /\ Truthy(OptionsElement(o).datasetName)
         THEN OptionsElement(o).datasetName
    ELSE IF OptionsType(o) = JsStr(TypeOption)
         THEN IF getOptionSelectElement(o).found
              THEN getOptionSelectElement(o).name
              ELSE JsNull
    ELSE JsNull

\* get value()
OptionsValue(o) ==
    IF optValue(o).k # "absent" THEN optValue(o) ELSE JsNull

ownerDocumentThrows(o) == optOwnerDocument(o) = "other"

\* get ownerDocument(): global.document, the option, or the element's.
OptionsOwnerDocument(o) == "document"

\* get prefix()
OptionsPrefix(o) ==
    IF Truthy(optPrefix(o)) THEN optPrefix(o)
    ELSE IF Truthy(optFormId(o)) THEN optFormId(o)
    ELSE JsNull

separatorThrows(o) ==
    /\ optSeparator(o).k # "absent"
    /\ ~(optSeparator(o).k = "str" /\ optSeparator(o).s \in Separators)

\* get separator()
OptionsSeparator(o) ==
    IF optSeparator(o).k = "absent" THEN <<"_">> ELSE optSeparator(o).s

\* /^[a-zA-Z][a-zA-Z0-9_-]*$/ matches s.
FallbackRegexMatches(s) ==
    /\ Len(s) >= 1
    /\ s[1] \in AsciiLetters
    /\ \A i \in 2..Len(s) : s[i] \in AsciiLetters \cup Digits \cup {"_", "-"}

fallbackThrows(o) ==
    /\ optFallback(o).k # "absent"
    /\ ~(optFallback(o).k = "str" /\ FallbackRegexMatches(optFallback(o).s))

\* get fallback()
OptionsFallback(o) ==
    IF optFallback(o).k = "absent" THEN <<"f">> ELSE optFallback(o).s

\* get forceUniqueness() reads name only when no element is present.
forceUniquenessDiverges(o) ==
    /\ optForceUniqueness(o).k = "absent"
    /\ OptionsElement(o).ref = 0
    /\ nameDiverges(o)

\* The default without the name: uniqueness when there is an element only.
OptionsForceUniquenessElementOnly(o) ==
    IF optForceUniqueness(o).k # "absent" THEN optForceUniqueness(o).b
    ELSE OptionsElement(o).ref # 0

\* The default with !this.name taken as this.name.
OptionsForceUniquenessWhenNamed(o) ==
    IF optForceUniqueness(o).k # "absent" THEN optForceUniqueness(o).b
    ELSE OptionsElement(o).ref # 0 \/ Truthy(OptionsName(o))

\* get forceUniqueness()
OptionsForceUniqueness(o) ==
    IF optForceUniqueness(o).k # "absent" THEN optForceUniqueness(o).b
    ELSE OptionsElement(o).ref # 0 \/ ~Truthy(OptionsName(o))

(***************************************************************************)
(* State                                                                   *)
(***************************************************************************)
\* Number of elements of the page.
MaxElems == 2

\* Number of elements of the documents the uniqueness search is called on.
MaxHeld == 3

VARIABLES
    document,       \* the document: doctype, children, the elements' ids
    inst,           \* the InputId object the page holds
    lookups,        \* getElementById calls made by the last step
    generated,      \* history: the elements whose id is one generated for
                    \* them with uniqueness requested
    searchArgs,     \* the arguments of a call of generateUniqueFromBaseId
    searchResult,   \* its result, JsNull before the call
    attempts,       \* the ids the call looked up, in the order of the lookups
    cleanArgs,      \* the arguments of a call of clean
    cleanResult,    \* its result, JsNull before the call
    options,        \* the argument of a call of the constructor
    outcome,        \* what the constructor made of it
    call,           \* the copying method called on the object built
    copy,           \* what that call returned
    seqArgs,        \* what a run over the elements asks for each of them
    processed       \* the elements the run has dealt with, in order

pageVars == <<inst, lookups, generated>>
searchVars == <<searchArgs, searchResult, attempts>>
cleanVars == <<cleanArgs, cleanResult>>
optionsVars == <<options, outcome, call, copy>>
seqVars == <<seqArgs, processed>>
vars == <<document, pageVars, searchVars, cleanVars, optionsVars, seqVars>>

(***************************************************************************)
(* The document                                                            *)
(***************************************************************************)
\* A document is a record: doctype; children, the elements attached to it
\* in tree order; ids, the id attribute of every element created from it,
\* attached or not (<<>>: no id).

\* Sequences of distinct members of S.
RECURSIVE Arrangements(_)
Arrangements(S) ==
    {<<>>} \cup UNION {{<<e>> \o t : t \in Arrangements(S \ {e})} : e \in S}

\* The documents over the elements 1..n whose ids are drawn from pool.
Documents(n, pool, doctypes) ==
    [doctype : doctypes, children : Arrangements(1..n), ids : [1..n -> pool]]

RECURSIVE FirstWithId(_, _, _)
FirstWithId(ids, nodes, elementId) ==
    IF nodes = <<>> THEN 0
    ELSE IF ids[Head(nodes)] = elementId THEN Head(nodes)
    ELSE FirstWithId(ids, Tail(nodes), elementId)

\* A lookup that sees no more than the first element of the document.
getElementByIdAmongFirst(ownerDocument, elementId) ==
    IF elementId = <<>> THEN 0
    ELSE FirstWithId(ownerDocument.ids,
                     IF ownerDocument.children = <<>> THEN <<>>
                     ELSE <<Head(ownerDocument.children)>>,
                     elementId)

\* ownerDocument.getElementById: the first attached element, in tree order,
\* whose id is elementId; 0 for null.
getElementById(ownerDocument, elementId) ==
    IF elementId = <<>> THEN 0
    ELSE FirstWithId(ownerDocument.ids, ownerDocument.children, elementId)

Attached(doc, e) == \E k \in 1..Len(doc.children) : doc.children[k] = e

\* The name attribute of the elements of the page.
ElementName == <<"a">>

\* The element e, an <input type="text" name="a">, as the options read it.
NodeOf(e) ==
    [NoNode EXCEPT !.ref = e, !.html = TRUE, !.type = JsStr(TypeText),
                   !.tagName = JsStr(TagInput), !.name = JsStr(ElementName),
                   !.value = JsStr(<<>>)]

(***************************************************************************)
(* generateUniqueFromBaseId                                                *)
(***************************************************************************)
\* The loop of generateUniqueFromBaseId from the lookup of idAttempt on.
\* node is the owner: an element, or 0 for the document itself, which no
\* element found can equal. Result: the id, the number of lookups made and
\* the ids looked up.
RECURSIVE attemptLoop(_, _, _, _, _, _)
attemptLoop(ownerDocument, idAttempt, attemptNumber, cleanedBaseId, node, separator) ==
    LET elementWithId == getElementById(ownerDocument, idAttempt)
    IN  IF elementWithId = 0 \/ (node # 0 /\ elementWithId = node)
        THEN [id |-> idAttempt, lookups |-> attemptNumber,
              tried |-> <<idAttempt>>]
        ELSE [attemptLoop(
                  ownerDocument,
                  cleanedBaseId \o separator \o NumberToString(attemptNumber),
                  attemptNumber + 1, cleanedBaseId, node, separator)
              EXCEPT !.tried = <<idAttempt>> \o @]

\* The search with a counter that starts at 2 instead of 1.
uniqueSearchFromTwo(baseId, node, fallback, separator, ownerDocument) ==
    LET cleanedBaseId ==
            clean(baseId, ownerDocument.doctype, fallback, separator)
    IN  attemptLoop(ownerDocument, cleanedBaseId, 2, cleanedBaseId, node,
                    separator)

\* generateUniqueFromBaseId with the lookups it makes; ownerDocument is
\* node.ownerDocument || node.
uniqueSearch(baseId, node, fallback, separator, ownerDocument) ==
    LET cleanedBaseId ==
            clean(baseId, ownerDocument.doctype, fallback, separator)
    IN  attemptLoop(ownerDocument, cleanedBaseId, 1, cleanedBaseId, node,
                    separator)

generateUniqueFromBaseId(baseId, node, fallback, separator, ownerDocument) ==
    uniqueSearch(baseId, node, fallback, separator, ownerDocument).id

(***************************************************************************)
(* InputId                                                                 *)
(***************************************************************************)
\* No object.
NoInstance ==
    [constructed |-> FALSE, frozen |-> FALSE, _element |-> 0,
     _fallback |-> <<>>, _forceUniqueness |-> FALSE, _name |-> JsNull,
     _value |-> JsNull, _ownerDocument |-> "document", _prefix |-> JsNull,
     _separator |-> <<>>, _type |-> JsNull, _string |-> JsNull]

\* The constructor without the read of resolvedOptions.separator of line
\* 419: an invalid separator is not noticed.
constructorErrorSeparatorUnread(o) ==
    IF elementThrows(o) THEN "TypeError"
    ELSE IF fallbackThrows(o) THEN "TypeError"
    ELSE IF forceUniquenessDiverges(o) \/ nameDiverges(o) THEN "diverges"
    ELSE IF ownerDocumentThrows(o) THEN "TypeError"
    ELSE "none"

\* The error the constructor ends with, in the order it reads the getters:
\* element, fallback, forceUniqueness, name, value, ownerDocument, prefix,
\* separator, type.
constructorError(o) ==
    IF elementThrows(o) THEN "TypeError"
    ELSE IF fallbackThrows(o) THEN "TypeError"
    ELSE IF forceUniquenessDiverges(o) \/ nameDiverges(o) THEN "diverges"
    ELSE IF ownerDocumentThrows(o) THEN "TypeError"
    ELSE IF separatorThrows(o) THEN "RangeError"
    ELSE "none"

\* The object the constructor builds when it does not throw.
newObject(o) ==
    [constructed |-> TRUE, frozen |-> FALSE,
     _element |-> OptionsElement(o).ref,
     _fallback |-> OptionsFallback(o),
     _forceUniqueness |-> OptionsForceUniqueness(o),
     _name |-> OptionsName(o),
     _value |-> OptionsValue(o),
     _ownerDocument |-> OptionsOwnerDocument(o),
     _prefix |-> OptionsPrefix(o),
     _separator |-> OptionsSeparator(o),
     _type |-> OptionsType(o),
     _string |-> JsNull]

\* new InputId(options)
InputIdConstructor(o) ==
    IF constructorError(o) = "none"
    THEN [error |-> "none", obj |-> newObject(o)]
    ELSE [error |-> constructorError(o), obj |-> NoInstance]

ValueTypes == {TypeCheckbox, TypeRadio, TypeOption}

\* toArray without the test of the type of line 489: a value is always a
\* part.
toArrayValueOfAnyType(this) ==
    (IF this._prefix # JsNull THEN <<this._prefix.s>> ELSE <<>>)
    \o (IF Truthy(this._name) THEN <<this._name.s>> ELSE <<>>)
    \o (IF this._value # JsNull THEN <<this._value.s>> ELSE <<>>)

\* toArray()
toArray(this) ==
    (IF this._prefix # JsNull THEN <<this._prefix.s>> ELSE <<>>)
    \o (IF Truthy(this._name) THEN <<this._name.s>> ELSE <<>>)
    \o (IF /\ Truthy(this._type)
           /\ this._value # JsNull
           /\ this._type.s \in ValueTypes
        THEN <<this._value.s>> ELSE <<>>)

\* toString's computation without the test of _forceUniqueness of line
\* 440: the search is always made.
computeStringAlwaysUnique(this, doc) ==
    uniqueSearch(Join(toArray(this), this._separator), this._element,
                 this._fallback, this._separator, doc)

\* The id toString computes when _string is null, and its lookups, against
\* the document doc. The owner is this._element || this._ownerDocument: 0
\* stands for the document.
computeString(this, doc) ==
    LET id == Join(toArray(this), this._separator)
    IN  IF this._forceUniqueness
        THEN uniqueSearch(id, this._element, this._fallback,
                          this._separator, doc)
        ELSE [id |-> clean(id, doc.doctype, this._fallback, this._separator),
              lookups |-> 0]

\* The object after toString(): the id is stored and the object frozen.
afterToString(this, doc) ==
    IF this._string = JsNull
    THEN [this EXCEPT !._string = JsStr(computeString(this, doc).id),
                      !.frozen = TRUE]
    ELSE this

\* The lookups toString() makes.
toStringLookups(this, doc) ==
    IF this._string = JsNull THEN computeString(this, doc).lookups ELSE 0

\* A write that the object takes although frozen, as it would without the
\* Object.freeze of line 453.
afterWriteNeverFrozen(this, field, v) ==
    IF field = "_forceUniqueness"
    THEN [this EXCEPT !._forceUniqueness = v.b]
    ELSE [this EXCEPT !._string = v]

\* The object after the assignment this[field] = v from outside the class:
\* a frozen object ignores it, a sealed one takes it.
afterWrite(this, field, v) ==
    IF this.frozen THEN this
    ELSE IF field = "_forceUniqueness"
         THEN [this EXCEPT !._forceUniqueness = v.b]
         ELSE [this EXCEPT !._string = v]

\* toObject() without the forceUniqueness property.
toObjectWithoutForceUniqueness(this) ==
    [EmptyOptions EXCEPT !.prefix = this._prefix, !.type = this._type,
                         !.name = this._name, !.value = this._value,
                         !.fallback = JsStr(this._fallback),
                         !.separator = JsStr(this._separator),
                         !.ownerDocument = this._ownerDocument]

\* toObject(): the fields but the element, as options for the constructor.
toObject(this) ==
    [EmptyOptions EXCEPT !.prefix = this._prefix, !.type = this._type,
                         !.name = this._name, !.value = this._value,
                         !.fallback = JsStr(this._fallback),
                         !.separator = JsStr(this._separator),
                         !.ownerDocument = this._ownerDocument,
                         !.forceUniqueness = JsBool(this._forceUniqueness)]

\* withType, withName, withValue, forceUniqueness() and ignoreUniqueness():
\* new InputId({...this.toObject(), ...{ property: value } }).
withType(this, type) ==
    InputIdConstructor([toObject(this) EXCEPT !.type = type])

withName(this, name) ==
    InputIdConstructor([toObject(this) EXCEPT !.name = name])

withValue(this, value) ==
    InputIdConstructor([toObject(this) EXCEPT !.value = value])

forceUniqueness(this) ==
    InputIdConstructor([toObject(this) EXCEPT !.forceUniqueness = JsBool(TRUE)])

ignoreUniqueness(this) ==
    InputIdConstructor([toObject(this) EXCEPT !.forceUniqueness = JsBool(FALSE)])

(***************************************************************************)
(* The page: a document and the InputId object it builds                   *)
(***************************************************************************)
\* The ids the elements of the page carry at the start.
InitIds == {<<>>, <<"a">>}

IdleSearch ==
    /\ searchArgs = [baseId |-> <<>>, node |-> 0, fallback |-> <<"f">>,
                     separator |-> <<"_">>]
    /\ searchResult = JsNull
    /\ attempts = <<>>

IdleClean ==
    /\ cleanArgs = [uncleanedId |-> <<>>, doctype |-> Html5Doctype,
                    fallback |-> <<"f">>, separator |-> <<"_">>]
    /\ cleanResult = JsNull

NoCall == [method |-> "none", arg |-> JsNull]

IdleOptions ==
    /\ options = EmptyOptions
    /\ outcome = [error |-> "pending", obj |-> NoInstance]
    /\ call = NoCall
    /\ copy = [error |-> "pending", obj |-> NoInstance]

IdlePage ==
    /\ inst = NoInstance
    /\ lookups = 0
    /\ generated = {}

IdleSeq ==
    /\ seqArgs = [name |-> JsAbsent, separator |-> JsAbsent,
                  element |-> "none"]
    /\ processed = <<>>

IdleDocument ==
    document = [doctype |-> Html5Doctype, children |-> <<>>,
                ids |-> [e \in 1..MaxElems |-> <<>>]]

\* The page is an HTML5 document, as the document of the tests is: its ids
\* begin with a letter, which clean treats alike in both modes.
Init ==
    /\ document \in Documents(MaxElems, InitIds, {Html5Doctype})
    /\ IdlePage
    /\ IdleSearch
    /\ IdleClean
    /\ IdleOptions
    /\ IdleSeq

\* The arguments the page passes to new InputId: an element, or options
\* naming the field after the elements.
PageOptions ==
    {NodeOptions(NodeOf(e), b) : e \in DOMAIN document.ids, b \in BOOLEAN}
    \cup
    {[EmptyOptions EXCEPT !.element = n, !.name = JsStr(ElementName),
                          !.forceUniqueness = fu] :
        n \in {NoNode} \cup {NodeOf(e) : e \in DOMAIN document.ids},
        fu \in {BoolAbsent, JsBool(TRUE), JsBool(FALSE)}}

\* parent.appendChild(e): e becomes the last child, moved if attached.
appendChild(doc, e) ==
    [doc EXCEPT !.children = Append(SelectSeq(@, LAMBDA x : x # e), e)]

AppendChild(e) ==
    /\ document' = appendChild(document, e)
    /\ lookups' = 0
    /\ UNCHANGED <<inst, generated, searchVars, cleanVars, optionsVars,
                   seqVars>>

\* parent.removeChild(e)
RemoveChild(e) ==
    /\ Attached(document, e)
    /\ document' = [document EXCEPT !.children =
                        SelectSeq(@, LAMBDA x : x # e)]
    /\ lookups' = 0
    /\ UNCHANGED <<inst, generated, searchVars, cleanVars, optionsVars,
                   seqVars>>

\* inst = new InputId(o), for an argument the constructor accepts.
NewInputId(o) ==
    /\ ~inst.constructed
    /\ InputIdConstructor(o).error = "none"
    /\ inst' = InputIdConstructor(o).obj
    /\ lookups' = 0
    /\ UNCHANGED <<document, generated, searchVars, cleanVars, optionsVars,
                   seqVars>>

\* A toString() that also gives the id it returns to the element of the
\* object.
toStringAndAssign ==
    /\ inst.constructed
    /\ inst' = afterToString(inst, document)
    /\ document' = IF inst._element = 0 THEN document
                   ELSE [document EXCEPT !.ids[inst._element] =
                            afterToString(inst, document)._string.s]
    /\ lookups' = toStringLookups(inst, document)
    /\ UNCHANGED <<generated, searchVars, cleanVars, optionsVars, seqVars>>

\* inst.toString(), which valueOf() forwards to.
toString ==
    /\ inst.constructed
    /\ UNCHANGED <<document, generated, searchVars, cleanVars, optionsVars,
                   seqVars>>
    /\ inst' = afterToString(inst, document)
    /\ lookups' = toStringLookups(inst, document)

\* What getElement() returns: the element of doc that holds the id of
\* toString(), 0 for null.
getElement(this, doc) ==
    getElementById(doc, afterToString(this, doc)._string.s)

\* inst.getElement(): toString(), then one more getElementById, with the id
\* of toString(), whose answer goes to the caller.
GetElement ==
    /\ inst.constructed
    /\ UNCHANGED <<document, generated, searchVars, cleanVars, optionsVars,
                   seqVars>>
    /\ inst' = afterToString(inst, document)
    /\ lookups' = toStringLookups(inst, document) + 1

\* inst.getLabels(): getElement(), with its lookup, then the labels of the
\* element found are copied to a new array.
GetLabels ==
    /\ inst.constructed
    /\ UNCHANGED <<document, generated, searchVars, cleanVars, optionsVars,
                   seqVars>>
    /\ inst' = afterToString(inst, document)
    /\ lookups' = toStringLookups(inst, document) + 1

\* e.id = inst: the setter converts the object with toString().
assignId(e) ==
    /\ inst.constructed
    /\ inst' = afterToString(inst, document)
    /\ document' = [document EXCEPT
                        !.ids[e] = afterToString(inst, document)._string.s]
    /\ lookups' = toStringLookups(inst, document)
    /\ UNCHANGED <<searchVars, cleanVars, optionsVars, seqVars>>

AssignId(e) ==
    /\ assignId(e)
    /\ UNCHANGED generated

\* The same step with the history kept: e holds a generated id when the
\* object was built for e with uniqueness requested and computed the id.
AssignIdRecorded(e) ==
    /\ assignId(e)
    /\ generated' = IF /\ afterToString(inst, document).frozen
                       /\ inst._forceUniqueness
                       /\ inst._element = e
                    THEN generated \cup {e}
                    ELSE generated \ {e}

\* inst[field] = v from outside the class.
WriteField(field, v) ==
    /\ inst.constructed
    /\ inst' = afterWrite(inst, field, v)
    /\ lookups' = 0
    /\ UNCHANGED <<document, generated, searchVars, cleanVars, optionsVars,
                   seqVars>>

\* The page lets go of the object.
Drop ==
    /\ inst.constructed
    /\ inst' = NoInstance
    /\ lookups' = 0
    /\ UNCHANGED <<document, generated, searchVars, cleanVars, optionsVars,
                   seqVars>>

Next ==
    \/ \E e \in DOMAIN document.ids : AppendChild(e)
    \/ \E e \in DOMAIN document.ids : RemoveChild(e)
    \/ \E o \in PageOptions : NewInputId(o)
    \/ toString
    \/ GetElement
    \/ GetLabels
    \/ \E e \in DOMAIN document.ids : AssignId(e)
    \/ \E b \in BOOLEAN : WriteField("_forceUniqueness", JsBool(b))
    \/ WriteField("_string", JsStr(ElementName))
    \/ Drop

Spec == Init /\ [][Next]_vars

\* The page with the history of the generated ids.
NextRecorded ==
    \/ \E e \in DOMAIN document.ids : AppendChild(e)
    \/ \E e \in DOMAIN document.ids : RemoveChild(e)
    \/ \E o \in PageOptions : NewInputId(o)
    \/ toString
    \/ GetElement
    \/ GetLabels
    \/ \E e \in DOMAIN document.ids : AssignIdRecorded(e)
    \/ \E b \in BOOLEAN : WriteField("_forceUniqueness", JsBool(b))
    \/ WriteField("_string", JsStr(ElementName))
    \/ Drop

SpecRecorded == Init /\ [][NextRecorded]_vars

(***************************************************************************)
(* clean on its own                                                        *)
(***************************************************************************)
InitClean ==
    /\ cleanArgs \in [uncleanedId : Candidates, doctype : Doctypes,
                      fallback : Fallbacks, separator : Separators]
    /\ cleanResult = JsNull
    /\ IdleDocument
    /\ IdlePage
    /\ IdleSearch
    /\ IdleOptions
    /\ IdleSeq

CallClean ==
    /\ cleanResult = JsNull
    /\ cleanResult' = JsStr(clean(cleanArgs.uncleanedId, cleanArgs.doctype,
                                  cleanArgs.fallback, cleanArgs.separator))
    /\ lookups' = 0
    /\ UNCHANGED <<cleanArgs, document, inst, generated, searchVars,
                   optionsVars, seqVars>>

NextClean == CallClean

SpecClean == InitClean /\ [][NextClean]_vars

(***************************************************************************)
(* generateUniqueFromBaseId on its own, against any document               *)
(***************************************************************************)
\* The base ids the search is called with.
SearchBaseIds == {<<"1">>}

\* The ids of the family of a base id: the base and its first suffixes.
Family(base, separator) ==
    {base, base \o separator \o <<"1">>, base \o separator \o <<"2">>}

\* The documents a call is made against: every element has no id or one of
\* the family of the cleaned base id.
SearchDocuments(args) ==
    UNION {Documents(MaxHeld,
                     {<<>>} \cup Family(clean(args.baseId, dt, args.fallback,
                                              args.separator),
                                        args.separator),
                     {dt}) : dt \in Doctypes}

InitSearch ==
    /\ searchArgs \in [baseId : SearchBaseIds, node : 0..MaxHeld,
                       fallback : {<<"f">>}, separator : Separators]
    /\ document \in SearchDocuments(searchArgs)
    /\ searchResult = JsNull
    /\ attempts = <<>>
    /\ IdlePage
    /\ IdleClean
    /\ IdleOptions
    /\ IdleSeq

CallGenerateUnique ==
    /\ searchResult = JsNull
    /\ searchResult' = JsStr(generateUniqueFromBaseId(
                                 searchArgs.baseId, searchArgs.node,
                                 searchArgs.fallback, searchArgs.separator,
                                 document))
    /\ lookups' = uniqueSearch(searchArgs.baseId, searchArgs.node,
                               searchArgs.fallback, searchArgs.separator,
                               document).lookups
    /\ attempts' = uniqueSearch(searchArgs.baseId, searchArgs.node,
                                searchArgs.fallback, searchArgs.separator,
                                document).tried
    /\ UNCHANGED <<searchArgs, document, inst, generated, cleanVars, optionsVars,
                   seqVars>>

NextSearch == CallGenerateUnique

SpecSearch == InitSearch /\ [][NextSearch]_vars

(***************************************************************************)
(* generateUniqueFromBaseId for a new element, after removals              *)
(***************************************************************************)
\* The element the id is generated for: it holds no id and is not attached.
NewElement == MaxHeld + 1

\* Every element but the new one is attached and has no id or one of the
\* family of the cleaned base id.
InitFreed ==
    /\ searchArgs \in [baseId : SearchBaseIds, node : {NewElement},
                       fallback : {<<"f">>}, separator : Separators]
    /\ \E dt \in Doctypes :
       \E c \in {a \in Arrangements(1..MaxHeld) : Len(a) = MaxHeld} :
       \E held \in [1..MaxHeld ->
                       {<<>>} \cup Family(clean(searchArgs.baseId, dt,
                                                searchArgs.fallback,
                                                searchArgs.separator),
                                          searchArgs.separator)] :
           document = [doctype |-> dt, children |-> c,
                       ids |-> [e \in 1..NewElement |->
                                   IF e = NewElement THEN <<>> ELSE held[e]]]
    /\ searchResult = JsNull
    /\ attempts = <<>>
    /\ IdlePage
    /\ IdleClean
    /\ IdleOptions
    /\ IdleSeq

\* parent.removeChild(e), before the call.
RemoveHolder(e) ==
    /\ searchResult = JsNull
    /\ RemoveChild(e)

NextFreed ==
    \/ \E e \in 1..MaxHeld : RemoveHolder(e)
    \/ CallGenerateUnique

SpecFreed == InitFreed /\ [][NextFreed]_vars

(***************************************************************************)
(* The constructor on its own                                              *)
(***************************************************************************)
\* Nodes passed as the argument or as the element option: inputs with and
\* without a name, options inside and outside a select, a text node.
InputNamed == NodeOf(1)
InputUnnamed == [InputNamed EXCEPT !.name = JsStr(<<>>)]
InputWithDataName == [InputUnnamed EXCEPT !.datasetName = JsStr(<<"d">>)]
RadioNamed ==
    [InputNamed EXCEPT !.type = JsStr(TypeRadio), !.value = JsStr(<<"r">>),
                       !.formId = JsStr(<<"p">>)]
OptionAlone ==
    [NoNode EXCEPT !.ref = 1, !.html = TRUE, !.tagName = JsStr(TagOption),
                   !.value = JsStr(<<"r">>)]
OptionInSelect ==
    [OptionAlone EXCEPT !.parentTag = JsStr(TagSelect),
                        !.parentName = JsStr(<<"c">>)]
OptionInNamelessSelect ==
    [OptionAlone EXCEPT !.parentTag = JsStr(TagSelect),
                        !.parentName = JsStr(<<>>)]
OptionInOptgroup == [OptionAlone EXCEPT !.parentTag = JsStr(TagOptgroup)]
TextNode == [NoNode EXCEPT !.ref = 1]

SampleNodes ==
    {InputNamed, InputUnnamed, InputWithDataName, RadioNamed, OptionAlone,
     OptionInSelect, OptionInNamelessSelect, OptionInOptgroup, TextNode}

\* The arguments the constructor is called with.
ConstructorArguments ==
    {NodeOptions(n, b) : n \in SampleNodes, b \in BOOLEAN}
    \cup
    [kind : {"object"}, instanceofObject : {TRUE}, node : {NoNode},
     element : {NoNode, InputNamed, InputWithDataName, TextNode},
     name : {JsAbsent, JsStr(<<>>), JsStr(<<"a">>)},
     value : {JsAbsent, JsStr(<<"r">>), JsStr(<<>>)},
     type : {JsAbsent, JsStr(TypeText), JsStr(TypeRadio), JsStr(TypeOption)},
     prefix : {JsAbsent, JsStr(<<"p">>)},
     separator : {JsAbsent, JsStr(<<>>), JsStr(<<"-">>), JsStr(<<"_">>),
                  JsStr(<<"a">>)},
     fallback : {JsAbsent, JsStr(<<"x", "-", "1">>), JsStr(<<>>),
                 JsStr(<<"0">>), JsStr(<<"a", "U+00E9">>)},
     forceUniqueness : {BoolAbsent, JsBool(TRUE), JsBool(FALSE)},
     ownerDocument : {"absent", "other"},
     formId : {JsAbsent}]

InitOptions ==
    /\ options \in ConstructorArguments
    /\ outcome = [error |-> "pending", obj |-> NoInstance]
    /\ call = NoCall
    /\ copy = [error |-> "pending", obj |-> NoInstance]
    /\ IdleDocument
    /\ IdlePage
    /\ IdleSearch
    /\ IdleClean
    /\ IdleSeq

\* new InputId(options)
Construct ==
    /\ outcome.error = "pending"
    /\ outcome' = InputIdConstructor(options)
    /\ lookups' = 0
    /\ UNCHANGED <<options, call, copy, document, inst, generated,
                   searchVars, cleanVars, seqVars>>

\* String(object) on the object built.
Stringify ==
    /\ outcome.error = "none"
    /\ ~outcome.obj.frozen
    /\ outcome' = [outcome EXCEPT !.obj = afterToString(@, document)]
    /\ lookups' = toStringLookups(outcome.obj, document)
    /\ UNCHANGED <<options, call, copy, document, inst, generated,
                   searchVars, cleanVars, seqVars>>

\* The calls of the copying methods made on the object built.
Calls ==
    [method : {"withType"}, arg : {JsStr(TypeRadio), JsStr(<<>>)}]
    \cup [method : {"withName"}, arg : {JsStr(<<"b">>), JsStr(<<>>)}]
    \cup [method : {"withValue"}, arg : {JsStr(<<"v">>)}]
    \cup [method : {"forceUniqueness", "ignoreUniqueness"}, arg : {JsNull}]

\* What the call c returns on the object this.
Returned(this, c) ==
    CASE c.method = "withType" -> withType(this, c.arg)
      [] c.method = "withName" -> withName(this, c.arg)
      [] c.method = "withValue" -> withValue(this, c.arg)
      [] c.method = "forceUniqueness" -> forceUniqueness(this)
      [] c.method = "ignoreUniqueness" -> ignoreUniqueness(this)

\* copy = object.withType(type), and so on: the methods read the object,
\* write nothing to it and make no lookup.
Copy(c) ==
    /\ outcome.error = "none"
    /\ call = NoCall
    /\ call' = c
    /\ copy' = Returned(outcome.obj, c)
    /\ lookups' = 0
    /\ UNCHANGED <<options, outcome, document, inst, generated, searchVars,
                   cleanVars, seqVars>>

NextOptions ==
    \/ Construct
    \/ Stringify
    \/ \E c \in Calls : Copy(c)

SpecOptions == InitOptions /\ [][NextOptions]_vars

(***************************************************************************)
(* Properties of clean                                                     *)
(***************************************************************************)
\* C10: for every candidate, document mode, validated fallback and
\* permitted separator, clean returns a non-empty string, and it returns
\* the fallback verbatim whenever the sanitized remainder is empty.
C10_CleanNeverEmpty ==
    cleanResult # JsNull =>
        /\ cleanResult.s # <<>>
        /\ cleanedHtmlId(cleanArgs.uncleanedId, cleanArgs.doctype) = <<>>
               => cleanResult.s = cleanArgs.fallback

\* A candidate made of disallowed characters only has been cleaned to the
\* fallback.
C10_Witness ==
    /\ cleanResult # JsNull
    /\ cleanArgs.uncleanedId = <<"[", "[">>
    /\ cleanArgs.fallback = <<"x", "-", "1">>
    /\ cleanResult.s = cleanArgs.fallback

(***************************************************************************)
(* Properties of generateUniqueFromBaseId                                  *)
(***************************************************************************)
\* The elements attached to a document.
AttachedElements(doc) == {doc.children[k] : k \in 1..Len(doc.children)}

\* C1: the identifier generateUniqueFromBaseId returns is held by no
\* element of the document other than node.
C1_ResultHeldByNoOtherElement ==
    searchResult # JsNull =>
        \A e \in AttachedElements(document) \ {searchArgs.node} :
            document.ids[e] # searchResult.s

\* The cleaned base id of the call made.
SearchBase ==
    clean(searchArgs.baseId, document.doctype, searchArgs.fallback,
          searchArgs.separator)

\* C4: an owner element of the document that holds the base id or the base
\* id with a numeric suffix gets exactly the id it holds, whatever the
\* other elements hold.
C4_OwnerKeepsItsId ==
    (/\ searchResult # JsNull
     /\ searchArgs.node \in AttachedElements(document)
     /\ document.ids[searchArgs.node]
            \in Family(SearchBase, searchArgs.separator))
        => searchResult.s = document.ids[searchArgs.node]

\* The documents with the ids of doc on the same elements and the same
\* elements attached: they differ from doc in the order of the children.
SameAssignments(doc) ==
    {[doc EXCEPT !.children = c] :
        c \in {a \in Arrangements(AttachedElements(doc)) :
                  Len(a) = Len(doc.children)}}

\* C5: a run with the same inputs against a document with the same
\* (id, element) assignments returns the same identifier.
C5_SameAssignmentsSameId ==
    searchResult # JsNull =>
        \A d \in SameAssignments(document) :
            generateUniqueFromBaseId(
                searchArgs.baseId, searchArgs.node, searchArgs.fallback,
                searchArgs.separator, d) = searchResult.s

\* The k-th id the search asks for: the base id, then the base id, the
\* separator and the counter.
Attempt(k) ==
    IF k = 1 THEN SearchBase
    ELSE SearchBase \o searchArgs.separator \o NumberToString(k - 1)

\* C16: the search looks up the base id, then the base id with 1, 2, ... in
\* that order, none skipped or repeated, and returns the first of them that
\* no element holds or the owner holds; the ones before it are held by
\* other elements.
C16_FirstFreeOrOwnedAttempt ==
    LET Free(id) ==
            \A e \in AttachedElements(document) : document.ids[e] # id
        Owned(id) ==
            /\ searchArgs.node \in AttachedElements(document)
            /\ document.ids[searchArgs.node] = id
    IN  searchResult # JsNull =>
            /\ \A k \in 1..Len(attempts) : attempts[k] = Attempt(k)
            /\ searchResult.s = attempts[Len(attempts)]
            /\ \A k \in 1..Len(attempts) :
                   (Free(attempts[k]) \/ Owned(attempts[k]))
                       <=> k = Len(attempts)

\* C18: when the owner is the document itself, the id returned is held by
\* no element of the document.
C18_DocumentOwnerGetsFreeId ==
    (searchResult # JsNull /\ searchArgs.node = 0) =>
        \A e \in AttachedElements(document) :
            document.ids[e] # searchResult.s

\* The document was the owner, elements hold the base id and the base id
\* with 1, and the call passed over both.
C18_Witness ==
    /\ searchResult # JsNull
    /\ searchArgs.node = 0
    /\ \E e1, e2 \in AttachedElements(document) :
           /\ document.ids[e1] = Attempt(1)
           /\ document.ids[e2] = Attempt(2)
    /\ searchResult.s = Attempt(3)

\* The elements of the document that hold an id.
Holders == {e \in AttachedElements(document) : document.ids[e] # <<>>}

\* C19: against a document in which n elements hold an id, the search ends
\* after n + 1 lookups at most, with a counter of n at most, whatever the
\* separator and the owner.
C19_LookupsBoundedByHolders ==
    searchResult # JsNull =>
        /\ lookups = Len(attempts)
        /\ lookups <= Cardinality(Holders) + 1
        /\ searchResult.s = Attempt(lookups)

\* Three elements hold the base id and the base id with 1 and 2, the
\* separator is empty, and the call made four lookups.
C19_Witness ==
    /\ searchResult # JsNull
    /\ searchArgs.separator = <<>>
    /\ Cardinality(Holders) = 3
    /\ lookups = 4
    /\ searchResult.s = SearchBase \o <<"3">>

\* Elements hold the base id and the base id with 1 and 2; the holder of
\* the base id with 1 has been removed from the document, the two others
\* are in it, and no element of the document holds the base id with 1.
FreedSlot ==
    /\ \E e0, e2 \in AttachedElements(document) :
           /\ document.ids[e0] = Attempt(1)
           /\ document.ids[e2] = Attempt(3)
    /\ \E e1 \in DOMAIN document.ids \ AttachedElements(document) :
           document.ids[e1] = Attempt(2)
    /\ \A e \in AttachedElements(document) : document.ids[e] # Attempt(2)

\* C17 as stated: after the holder of the base id with 1 is removed, the
\* search for a new element does not return the base id with 1.
C17_FreedIdNotReturned ==
    (searchResult # JsNull /\ FreedSlot) => searchResult.s # Attempt(2)

\* C17: after the holder of the base id with 1 is removed, the search for
\* a new element returns the base id with 1, the first id no element of
\* the document holds.
C17_FreedIdReturned ==
    (searchResult # JsNull /\ FreedSlot) =>
        /\ searchResult.s = Attempt(2)
        /\ lookups = 2

\* The holder of 1_1 was removed, the holders of 1 and 1_2 stay, and the
\* new element got 1_1.
C17_Witness ==
    /\ FreedSlot
    /\ searchArgs.node = NewElement
    /\ searchArgs.separator = <<"_">>
    /\ searchResult = JsStr(<<"1", "_", "1">>)

(***************************************************************************)
(* Properties of the page                                                  *)
(***************************************************************************)
\* C2: whatever the order of the steps, no two elements attached to the
\* document hold the same id generated for them with uniqueness requested.
C2_GeneratedIdsDistinct ==
    \A e1, e2 \in generated \cap AttachedElements(document) :
        e1 # e2 => document.ids[e1] # document.ids[e2]

\* C6: once toString has computed the id the object never changes again,
\* whatever is written to it and whatever happens to the document, and a
\* later toString returns the stored id without a lookup.
C6_ComputedOnce ==
    [][(inst.frozen /\ inst'.constructed) =>
          /\ inst' = inst
          /\ \/ lookups' = 0
             \/ lookups' = 1 /\ (GetElement \/ GetLabels)
    ]_vars

\* The object holds the id it computed although the document has changed
\* so that a new computation would give another id.
C6_Witness ==
    /\ inst.frozen
    /\ inst._forceUniqueness
    /\ computeString(inst, document).id # inst._string.s

\* The documents that differ from doc in the ids their elements hold only.
WithOtherIds(doc, pool) ==
    {[doc EXCEPT !.ids = f] : f \in [DOMAIN doc.ids -> pool]}

\* C7: an id computed without uniqueness is the cleaned join of the parts,
\* the same against every document of the same mode whatever ids its
\* elements hold.
C7_NoUniquenessIgnoresDocument ==
    (inst.frozen /\ ~inst._forceUniqueness) =>
        /\ inst._string.s = clean(Join(toArray(inst), inst._separator),
                                  document.doctype, inst._fallback,
                                  inst._separator)
        /\ \A d \in WithOtherIds(document, {<<>>, inst._string.s}) :
               computeString(inst, d).id = inst._string.s

\* An id was computed without uniqueness and two attached elements hold it.
C7_Witness ==
    /\ inst.frozen
    /\ ~inst._forceUniqueness
    /\ \E e1, e2 \in AttachedElements(document) :
           /\ e1 # e2
           /\ document.ids[e1] = inst._string.s
           /\ document.ids[e2] = inst._string.s

(***************************************************************************)
(* Elements given their ids one after another                              *)
(***************************************************************************)
\* Number of elements the run goes through.
MaxSeq == 3

\* The ids elements hold before the run: none, or one that no run asks for.
OtherIds == {<<>>, <<"b">>}

\* The argument of new InputId for element e: the element itself, options
\* with the element, or options without it that ask for uniqueness.
SeqOptions(e) ==
    IF seqArgs.element = "argument"
    THEN NodeOptions(NodeOf(e), FALSE)
    ELSE IF seqArgs.element = "option"
    THEN [EmptyOptions EXCEPT !.element = NodeOf(e), !.name = seqArgs.name,
                              !.separator = seqArgs.separator]
    ELSE [EmptyOptions EXCEPT !.name = seqArgs.name,
                              !.separator = seqArgs.separator,
                              !.forceUniqueness = JsBool(TRUE)]

InitSeq ==
    /\ seqArgs \in [name : {JsAbsent, JsStr(<<"a">>), JsStr(<<"1">>)},
                    separator : {JsAbsent} \cup {JsStr(x) : x \in Separators},
                    element : {"argument", "option", "none"}]
    /\ processed = <<>>
    /\ document \in {d \in Documents(MaxSeq, OtherIds, Doctypes) :
                        d.children \in {<<>>, [k \in 1..MaxSeq |-> k]}}
    /\ IdlePage
    /\ IdleSearch
    /\ IdleClean
    /\ IdleOptions

\* parent.appendChild(e); e.id = new InputId(options) when attachFirst, the
\* two statements in the other order otherwise.
Process(e, attachFirst) ==
    LET d1 == IF attachFirst THEN appendChild(document, e) ELSE document
        obj == InputIdConstructor(SeqOptions(e)).obj
        d2 == [d1 EXCEPT !.ids[e] = afterToString(obj, d1)._string.s]
    IN  /\ \A k \in 1..Len(processed) : processed[k] # e
        /\ InputIdConstructor(SeqOptions(e)).error = "none"
        /\ document' = IF attachFirst THEN d2 ELSE appendChild(d2, e)
        /\ processed' = Append(processed, e)
        /\ lookups' = toStringLookups(obj, d1)
        /\ UNCHANGED <<inst, generated, seqArgs, searchVars, cleanVars,
                       optionsVars>>

NextSeq == \E e \in DOMAIN document.ids, attachFirst \in BOOLEAN :
               Process(e, attachFirst)

SpecSeq == InitSeq /\ [][NextSeq]_vars

\* The object every element of the run is given, before its id is computed.
SeqObject == InputIdConstructor(SeqOptions(1)).obj

\* The base id the run asks for.
SeqBase ==
    clean(Join(toArray(SeqObject), SeqObject._separator), document.doctype,
          SeqObject._fallback, SeqObject._separator)

\* C3: when the elements are given their ids one after another against a
\* document that holds none of them, the first gets the base id and the
\* k-th after it the base id, the separator and k.
C3_SuffixesInOrder ==
    \A k \in 1..Len(processed) :
        document.ids[processed[k]] =
            IF k = 1 THEN SeqBase
            ELSE SeqBase \o SeqObject._separator \o NumberToString(k - 1)

\* Three elements without a name have been given f, f_1 and f_2.
C3_Witness ==
    /\ Len(processed) >= 3
    /\ seqArgs.name = JsAbsent
    /\ seqArgs.element = "none"
    /\ document.ids[processed[1]] = <<"f">>
    /\ document.ids[processed[2]] = <<"f", "_", "1">>
    /\ document.ids[processed[3]] = <<"f", "_", "2">>

(***************************************************************************)
(* Properties of the constructor                                           *)
(***************************************************************************)
\* C8: without a forceUniqueness option, the object asks for uniqueness
\* exactly when it has an element or its name is empty or absent.
C8_DefaultForceUniqueness ==
    (outcome.error = "none" /\ optForceUniqueness(options).k = "absent") =>
        outcome.obj._forceUniqueness =
            (outcome.obj._element # 0 \/ ~Truthy(outcome.obj._name))

\* An object built from an element and a name asks for uniqueness by
\* default.
C8_Witness ==
    /\ outcome.error = "none"
    /\ optForceUniqueness(options).k = "absent"
    /\ outcome.obj._element # 0
    /\ Truthy(outcome.obj._name)
    /\ outcome.obj._forceUniqueness

\* The constructor returns, the options have no forceUniqueness property
\* and the element getter gives null: no element was passed, or a node was
\* passed as the argument and read as an object of options.
NoElementNoOption ==
    /\ outcome.error = "none"
    /\ optForceUniqueness(options).k = "absent"
    /\ OptionsElement(options).ref = 0

\* C9 as stated: when no element is passed, as the argument or as the
\* element option, and no forceUniqueness option, forceUniqueness is false,
\* with a name or without.
C9_FalseWithoutElement ==
    (/\ NoElementNoOption
     /\ options.kind = "object"
     /\ options.element = NoNode) => ~outcome.obj._forceUniqueness

\* C9: without an element, none being passed or the one passed not being
\* read, and without a forceUniqueness option, forceUniqueness is false
\* when a name is given and true when the name is empty or absent.
C9_FalseWithoutElementWhenNamed ==
    NoElementNoOption =>
        outcome.obj._forceUniqueness = ~Truthy(outcome.obj._name)

\* Options with a name and nothing else give an object that does not ask
\* for uniqueness.
C9_Witness ==
    /\ NoElementNoOption
    /\ options.kind = "object"
    /\ options.element = NoNode
    /\ Truthy(outcome.obj._name)
    /\ ~outcome.obj._forceUniqueness

(***************************************************************************)
(* More properties of clean                                                *)
(***************************************************************************)
\* The characters an id may have: in an HTML5 document digits, letters,
\* marks, underscore and hyphen; otherwise ASCII letters, digits,
\* underscore and hyphen.
AllowedCharacters(doctype) ==
    IF isHtml5(doctype)
    THEN Digits \cup AsciiLetters \cup UnicodeLetters \cup CombiningMarks
         \cup {"_", "-"}
    ELSE Digits \cup AsciiLetters \cup {"_", "-"}

AllAllowed(s, doctype) ==
    \A i \in 1..Len(s) : s[i] \in AllowedCharacters(doctype)

\* C11: every character of the id clean returns is one the document mode
\* allows, with the fallback in front or not, and so is every character of
\* that id followed by the separator and a counter.
C11_OnlyAllowedCharacters ==
    cleanResult # JsNull =>
        /\ AllAllowed(cleanResult.s, cleanArgs.doctype)
        /\ \A k \in 1..12 :
               AllAllowed(cleanResult.s \o cleanArgs.separator
                              \o NumberToString(k), cleanArgs.doctype)

\* A bracket has become a hyphen and a letter outside ASCII is kept in an
\* HTML5 document.
C11_Witness ==
    /\ cleanResult # JsNull
    /\ isHtml5(cleanArgs.doctype)
    /\ cleanArgs.uncleanedId = <<"B", "[", "U+4E9C">>
    /\ cleanResult.s = <<"b", "-", "U+4E9C">>

\* C12: a cleaned id that is not empty is returned with the fallback and
\* the separator in front exactly when the document is not HTML5 and the
\* first character is not an ASCII letter, and unchanged otherwise.
C12_FallbackPrefixInLegacyOnly ==
    LET c == cleanedHtmlId(cleanArgs.uncleanedId, cleanArgs.doctype)
    IN  (cleanResult # JsNull /\ c # <<>>) =>
            cleanResult.s =
                IF ~isHtml5(cleanArgs.doctype) /\ c[1] \notin AsciiLetters
                THEN cleanArgs.fallback \o cleanArgs.separator \o c
                ELSE c

\* An id that starts with a digit got the fallback in front in an HTML4
\* document.
C12_Witness ==
    /\ cleanResult # JsNull
    /\ ~isHtml5(cleanArgs.doctype)
    /\ cleanArgs.uncleanedId = <<"1", "a">>
    /\ cleanResult.s = cleanArgs.fallback \o cleanArgs.separator
                           \o <<"1", "a">>

(***************************************************************************)
(* More properties of the constructor                                      *)
(***************************************************************************)
\* The options give a fallback that /^[a-zA-Z][a-zA-Z0-9_-]*$/ rejects.
InvalidFallbackGiven ==
    /\ options.kind = "object"
    /\ options.fallback.k = "str"
    /\ ~FallbackRegexMatches(options.fallback.s)

\* The options give a separator other than '_', '-' and ''.
InvalidSeparatorGiven ==
    /\ options.kind = "object"
    /\ options.separator.k = "str"
    /\ options.separator.s \notin {<<"_">>, <<"-">>, <<>>}

\* C13: the constructor throws, with no object built and no lookup made,
\* when the fallback or the separator given is invalid; it does not throw
\* when they are valid and the element and document given are; and an
\* object it builds has a valid fallback and a permitted separator.
C13_ConfigurationErrorsAtConstruction ==
    outcome.error # "pending" =>
        /\ (InvalidFallbackGiven \/ InvalidSeparatorGiven) =>
               /\ outcome.error \in {"TypeError", "RangeError"}
               /\ outcome.obj = NoInstance
               /\ lookups = 0
        /\ (/\ ~InvalidFallbackGiven
            /\ ~InvalidSeparatorGiven
            /\ options.ownerDocument = "absent"
            /\ (options.element.ref # 0 => options.element.html)
            /\ (options.node.ref # 0 => options.node.html))
               => outcome.error \notin {"TypeError", "RangeError"}
        /\ outcome.error = "none" =>
               /\ FallbackRegexMatches(outcome.obj._fallback)
               /\ outcome.obj._separator \in {<<"_">>, <<"-">>, <<>>}

\* The constructor threw a RangeError for the separator 'a'.
C13_Witness ==
    /\ outcome.error = "RangeError"
    /\ options.separator = JsStr(<<"a">>)
    /\ options.fallback = JsStr(<<"x", "-", "1">>)

\* Two optional pieces put together: JsNull is no piece, and the separator
\* goes between two pieces, empty or not.
Glue(x, y, sep) ==
    IF x = JsNull THEN y
    ELSE IF y = JsNull THEN x
    ELSE JsStr(x.s \o sep \o y.s)

\* The candidate string of an object: prefix, name and value, the name when
\* it is not empty and the value when the type is a choice type.
Candidate(this) ==
    LET name == IF Truthy(this._name) THEN this._name ELSE JsNull
        value == IF /\ this._value # JsNull
                    /\ this._type \in {JsStr(TypeCheckbox), JsStr(TypeRadio),
                                       JsStr(TypeOption)}
                 THEN this._value ELSE JsNull
        all == Glue(Glue(this._prefix, name, this._separator), value,
                    this._separator)
    IN  IF all = JsNull THEN <<>> ELSE all.s

\* C14: the string that is cleaned is the prefix when there is one, the
\* name when it is not empty and the value, joined by the separator; the
\* value is a part exactly when there is one and the type is checkbox,
\* radio or option.
C14_CandidateString ==
    outcome.error = "none" =>
        Join(toArray(outcome.obj), outcome.obj._separator)
            = Candidate(outcome.obj)

\* A name and a value give name-value for a radio.
C14_Witness ==
    /\ outcome.error = "none"
    /\ options.kind = "object"
    /\ options.name = JsStr(<<"a">>)
    /\ options.value = JsStr(<<"r">>)
    /\ options.type = JsStr(TypeRadio)
    /\ options.prefix = JsAbsent
    /\ options.separator = JsStr(<<"-">>)
    /\ Join(toArray(outcome.obj), outcome.obj._separator) = <<"a", "-", "r">>

(***************************************************************************)
(* Properties of the copying methods                                       *)
(***************************************************************************)
\* The value the call c gives the field the method of c replaces, and the
\* receiver's value r otherwise.
Replaced(c, method, r) == IF c.method = method THEN c.arg ELSE r

\* An empty string read as no value, as `if (this.options.name)` does.
NullIfEmpty(v) == IF Truthy(v) THEN v ELSE JsNull

\* The fields of the copy that no method replaces are the receiver's.
SameOtherFields(c, r) ==
    /\ c.constructed
    /\ ~c.frozen
    /\ c._string = JsNull
    /\ c._prefix = r._prefix
    /\ c._fallback = r._fallback
    /\ c._separator = r._separator
    /\ c._ownerDocument = r._ownerDocument

SameForceUniqueness(c, r, cl) ==
    c._forceUniqueness =
        IF cl.method = "forceUniqueness" THEN TRUE
        ELSE IF cl.method = "ignoreUniqueness" THEN FALSE
        ELSE r._forceUniqueness

\* C15 as stated: a copying method returns a new object, leaves the
\* receiver as it is, computed or not, and the copy has the receiver's
\* fields but the one the method replaces.
C15_CopyHasReceiversFields ==
    [][call' # call =>
        /\ outcome' = outcome
        /\ copy'.error = "none"
        /\ SameOtherFields(copy'.obj, outcome.obj)
        /\ SameForceUniqueness(copy'.obj, outcome.obj, call')
        /\ call'.method = "withType" \/ copy'.obj._type = outcome.obj._type
        /\ call'.method = "withName" \/ copy'.obj._name = outcome.obj._name
        /\ call'.method = "withValue" \/ copy'.obj._value = outcome.obj._value
    ]_vars

\* C15: a copying method returns a new object, leaves the receiver as it
\* is, computed or not, and the copy has the receiver's fields but the one
\* the method replaces, an empty name or type being null in the copy.
C15_CopyHasReceiversFieldsEmptyAsNull ==
    [][call' # call =>
        /\ outcome' = outcome
        /\ copy'.error = "none"
        /\ SameOtherFields(copy'.obj, outcome.obj)
        /\ SameForceUniqueness(copy'.obj, outcome.obj, call')
        /\ copy'.obj._type =
               NullIfEmpty(Replaced(call', "withType", outcome.obj._type))
        /\ copy'.obj._name =
               NullIfEmpty(Replaced(call', "withName", outcome.obj._name))
        /\ copy'.obj._value = Replaced(call', "withValue", outcome.obj._value)
    ]_vars

\* A computed object with an element, an empty name and uniqueness has
\* been copied with another value: the copy has a null name and is not
\* computed.
C15_Witness ==
    /\ call.method = "withValue"
    /\ outcome.obj.frozen
    /\ outcome.obj._element # 0
    /\ outcome.obj._forceUniqueness
    /\ outcome.obj._name = JsStr(<<>>)
    /\ copy.error = "none"
    /\ copy.obj._name = JsNull
    /\ copy.obj._value = JsStr(<<"v">>)
    /\ copy.obj._forceUniqueness

\* C20: the search for the select of an option returns for every option,
\* with the select that encloses it or with null, also when the parent of
\* the option is not a select: no call of the constructor is left waiting
\* for it.
C20_OptionSelectSearchReturns ==
    (outcome.error # "pending" /\ optParentTag(options).k = "str") =>
        /\ outcome.error # "diverges"
        /\ ~getOptionSelectElement(options).diverges

(***************************************************************************)
(* Properties of the strip step of clean                                   *)
(***************************************************************************)
\* C21 as stated: a candidate that is made of hyphens and underscores only
\* once the disallowed characters are replaced is empty after the strip
\* step, and clean returns the fallback for it.
C21_HyphensAndUnderscoresGiveFallback ==
    LET b == beforeStrip(cleanArgs.uncleanedId, cleanArgs.doctype)
    IN  (cleanResult # JsNull /\ \A i \in 1..Len(b) : b[i] \in {"-", "_"}) =>
            /\ StripEnds(b) = <<>>
            /\ cleanResult.s = cleanArgs.fallback

\* C21: a candidate that is made of hyphens and underscores only once the
\* disallowed characters are replaced loses one piece at each end in the
\* strip step, a piece being a run of hyphens or one underscore: with two
\* pieces at most it is empty and clean returns the fallback, with more it
\* keeps what is between the two and clean does not return the fallback
\* for it.
C21_HyphensAndUnderscoresLoseTheirEnds ==
    LET b == beforeStrip(cleanArgs.uncleanedId, cleanArgs.doctype)
    IN  (cleanResult # JsNull /\ \A i \in 1..Len(b) : b[i] \in {"-", "_"}) =>
            IF Len(b) <= 2
            THEN /\ StripEnds(b) = <<>>
                 /\ cleanResult.s = cleanArgs.fallback
            ELSE /\ StripEnds(b) = SubSeq(b, 2, Len(b) - 1)
                 /\ cleanResult.s =
                        IF isHtml5(cleanArgs.doctype) THEN StripEnds(b)
                        ELSE cleanArgs.fallback \o cleanArgs.separator
                                 \o StripEnds(b)

\* Three underscores have been cleaned to one underscore in an HTML5
\* document.
C21_Witness ==
    /\ cleanResult # JsNull
    /\ isHtml5(cleanArgs.doctype)
    /\ cleanArgs.uncleanedId = <<"_", "_", "_">>
    /\ cleanResult.s = <<"_">>

\* C22: after the strip step the cleaned id does not begin or end with a
\* hyphen, and one underscore at most has been taken from each end.
C22_NoHyphenAtTheEnds ==
    LET b == beforeStrip(cleanArgs.uncleanedId, cleanArgs.doctype)
        c == StripEnds(b)
        Underscores(s) == Len(SelectSeq(s, LAMBDA x : x = "_"))
    IN  cleanResult # JsNull =>
            /\ c # <<>> => (c[1] # "-" /\ c[Len(c)] # "-")
            /\ Underscores(b) - Underscores(c) <= 2

(***************************************************************************)
(* The document is read, not written                                       *)
(***************************************************************************)
\* C23: toString, with the clean and the search it runs, getElement and
\* getLabels leave the document as it is, and the ids of the elements
\* change only when the page assigns one.
C23_IdsChangeOnlyWhenAssigned ==
    [][/\ document' # document => ~(toString \/ GetElement \/ GetLabels)
       /\ document'.ids # document.ids =>
              \E e \in DOMAIN document.ids :
                  /\ document'.ids =
                         [document.ids EXCEPT ![e] = inst'._string.s]
                  /\ AssignId(e)
    ]_vars

\* The object has computed the suffixed id a_1 for its element, getElement
\* has made its lookup after the two of the search, the element holds no id
\* and no element holds the one computed.
C23_Witness ==
    /\ inst.frozen
    /\ inst._forceUniqueness
    /\ inst._element # 0
    /\ inst._string = JsStr(ElementName \o <<"_", "1">>)
    /\ lookups = 3
    /\ document.ids[inst._element] = <<>>
    /\ getElement(inst, document) = 0

====
